---- MODULE Spec2Model ----
(***************************************************************************)
(* State-machine model of the zenapi UI: the root App (session tokens,     *)
(* router, site mode, render-pass redirects), the MonitoringView fetches   *)
(* and the ModelsView pagination.                                          *)
(*                                                                         *)
(* Scheduling: a state setter schedules a re-render that runs before the   *)
(* next event (user input, popstate, network completion) is dispatched, so *)
(* every event handler is guarded by ~dirty and Render by dirty.  The      *)
(* effects of a render pass run with that pass (Render is pass + effects). *)
(*                                                                         *)
(* Paths are sequences of symbols; the symbol "/" is the slash and every   *)
(* other symbol stands for the literal word of that name, so that          *)
(* <<"/", "admin", "/", "x">> is the string "/admin/x".                    *)
(***************************************************************************)
EXTENDS Integers, Sequences, FiniteSets, TLC

VARIABLES
    adminToken,     \* useState adminToken
    userToken,      \* useState userToken
    userRecord,     \* useState userRecord
    siteMode,       \* useState siteMode
    notice,         \* useState notice
    path,           \* useState path
    storage,        \* localStorage: admin_token, user_token
    hist,           \* browser session history (entries' pathnames)
    hidx,           \* index of the current history entry
    inflight,       \* profile requests in flight, per token they carry
    siteFetch,      \* the site-info request: "idle", "pending", "done"
    adminLogins,    \* admin login requests in flight
    depTok,         \* userToken dependency seen by the user-record effect
    view,           \* what the last render pass returned
    dirty,          \* a re-render is scheduled
    nSets,          \* history: number of non-null user tokens set so far
    nFetch,         \* history: number of profile requests issued so far
    sess,           \* history: progress of the last handleUserLogin
    lastNav,        \* history: path last set by Init, navigateTo or popstate
    passes,         \* history: render passes of the current redirect chain
    \* MonitoringView
    monitoring,     \* prop monitoring: the data last handed to onLoaded
    days,           \* useState days
    loading,        \* useState loading
    shownLoading,   \* loading as last rendered (the buttons' disabled)
    shownPanel,     \* the last render returned the panel with the selector
    reqs,           \* monitoring requests in flight
    inst,           \* the mounted instance of the component
    nextId,         \* history: number of the next request
    applied,        \* history: the data handed to onLoaded, in order
    monDirty,       \* a re-render of the view is scheduled
    \* ModelsView
    models,         \* prop models: how many catalog items it holds
    search,         \* useState search
    pageSize,       \* useState pageSize
    page,           \* useState page
    depReset,       \* [search, pageSize] seen by the reset effect
    depClamp,       \* [totalPages] seen by the clamp effect
    shownPage,      \* page as last rendered (the buttons' closures)
    shownPages,     \* totalPages as last rendered
    shownTotal,     \* filtered.length as last rendered
    catDirty,       \* a re-render of the view is scheduled
    wasEmpty,       \* history: a render pass has shown an empty result
    \* pure functions
    nPath,          \* the string handed to normalizePath
    nOut,           \* the results of normalizePath, applied again to its result
    rate,           \* a success rate handed to rateColor and rateBg
    rateClass       \* the classes <<rateColor(rate), rateBg(rate)>> rendered

appVars == <<adminToken, userToken, userRecord, siteMode, notice, path,
             storage, hist, hidx, inflight, siteFetch, adminLogins, depTok,
             view, dirty, nSets, nFetch, sess, lastNav, passes>>

monVars == <<monitoring, days, loading, shownLoading, shownPanel, reqs, inst,
             nextId, applied, monDirty>>

catVars == <<models, search, pageSize, page, depReset, depClamp, shownPage,
             shownPages, shownTotal, catDirty, wasEmpty>>

fnVars == <<nPath, nOut, rate, rateClass>>

vars == <<appVars, monVars, catVars, fnVars>>

\* ------------------------------------------------------------- bounds
MaxHist == 2
MaxSets == 2
MaxAdminLogins == 1
MaxReqs == 3
MaxMounts == 2
MaxModels == 50
MaxLen == 4
MaxRate == 1000

\* ------------------------------------------------------------- values
Null == "null"
Tokens == {"tA", "tB"}
AdminTokens == {"adm"}
\* the profile the server returns for the bearer of token t
User(t) == IF t = "tA" THEN "userA" ELSE "userB"

Slash == "/"
Root == <<"/">>
PAdmin == <<"/", "admin">>
PUser == <<"/", "user">>
PLogin == <<"/", "login">>
PRegister == <<"/", "register">>

\* pathnames the browser can be opened at
StartLocations ==
    { Root, <<"/", "admin", "/">>, <<"/", "admin", "/", "x">>,
      PUser, PLogin, PRegister, <<"/", "x">> }

\* targets the mounted subtrees pass to onNavigate
NavTargets == { PLogin, PRegister }

\* number of characters of a symbol
SymLen(c) ==
    CASE c = "/" -> 1
      [] c = "admin" -> 5
      [] c = "user" -> 4
      [] c = "login" -> 5
      [] c = "register" -> 8
      [] OTHER -> 1

RECURSIVE StrLen(_)
StrLen(p) == IF p = <<>> THEN 0 ELSE SymLen(Head(p)) + StrLen(Tail(p))

\* path.replace(/\/+$/, "")
RECURSIVE StripTrailingSlashes(_)
StripTrailingSlashes(p) ==
    IF p # <<>> /\ p[Len(p)] = Slash
    THEN StripTrailingSlashes(SubSeq(p, 1, Len(p) - 1))
    ELSE p

normalizePath(p) ==
    IF StrLen(p) <= 1 THEN Root
    ELSE IF StripTrailingSlashes(p) = <<>> THEN Root
         ELSE StripTrailingSlashes(p)

\* String.prototype.startsWith
StartsWith(p, q) == Len(p) >= Len(q) /\ SubSeq(p, 1, Len(q)) = q

Location == hist[hidx]

ReactState == <<adminToken, userToken, userRecord, siteMode, notice, path>>

\* a setter that changes a state value schedules a re-render; the root App
\* does not touch the state of the two views
Scheduled ==
    /\ dirty' = (ReactState' # ReactState)
    /\ UNCHANGED <<monVars, catVars, fnVars>>

\* an event is dispatched only when no re-render is scheduled
Dispatched == ~dirty /\ UNCHANGED passes

\* ------------------------------------------------------------- Init
AppInit ==
    /\ storage \in [admin_token : AdminTokens \cup {Null},
                    user_token : Tokens \cup {Null}]
    /\ adminToken = storage.admin_token
    /\ userToken = storage.user_token
    /\ userRecord = Null
    /\ siteMode = Null
    /\ notice = ""
    /\ \E loc \in StartLocations :
          /\ hist = <<loc>>
          /\ path = normalizePath(loc)
          /\ lastNav = normalizePath(loc)
    /\ hidx = 1
    /\ inflight = [t \in Tokens |-> 0]
    /\ siteFetch = "idle"
    /\ adminLogins = 0
    /\ depTok = "unmounted"
    /\ view = "none"
    /\ dirty = TRUE
    /\ nSets = IF userToken = Null THEN 0 ELSE 1
    /\ nFetch = 0
    /\ sess = "none"
    /\ passes = 0

\* ------------------------------------------------------------- callbacks
\* setAdminToken(next); setItem / removeItem("admin_token")
updateAdminToken(next) ==
    /\ adminToken' = next
    /\ storage' = [storage EXCEPT !.admin_token = next]

\* mutant: clearing the token leaves the storage key in place
updateUserToken_KeepKey(next) ==
    /\ userToken' = next
    /\ storage' = IF next = Null THEN storage
                  ELSE [storage EXCEPT !.user_token = next]
    /\ userRecord' = IF next = Null THEN Null ELSE userRecord
    /\ nSets' = IF next = Null THEN nSets ELSE nSets + 1

\* setUserToken(next); setItem / removeItem("user_token"); a token is a
\* non-empty string, so that if (next) is next !== null
updateUserToken(next) ==
    /\ userToken' = next
    /\ storage' = [storage EXCEPT !.user_token = next]
    /\ userRecord' = IF next = Null THEN Null ELSE userRecord
    /\ nSets' = IF next = Null THEN nSets ELSE nSets + 1

\* history.pushState: the entries after the current one are dropped, the
\* new entry becomes the current one; the browser keeps at most MaxHist
\* entries and forgets the oldest
pushState(target) ==
    LET pushed == Append(SubSeq(hist, 1, hidx), target) IN
    /\ hist' = IF Len(pushed) > MaxHist THEN Tail(pushed) ELSE pushed
    /\ hidx' = IF Len(pushed) > MaxHist THEN MaxHist ELSE Len(pushed)

\* history.pushState(null, "", target); setPath(normalizePath(target))
navigateTo(target) ==
    /\ pushState(target)
    /\ path' = normalizePath(target)
    /\ lastNav' = normalizePath(target)

\* ------------------------------------------------------------- render pass
Authed(tok, rec) == tok # Null /\ rec # Null

\* mutant: the home redirect looks at the token alone
HomeTarget_TokenOnly(mode, tok, rec) ==
    IF mode = "personal" THEN PAdmin
    ELSE IF tok # Null THEN PUser
    ELSE PLogin

HomeTarget(mode, tok, rec) ==
    IF mode = "personal" THEN PAdmin
    ELSE IF Authed(tok, rec) THEN PUser
    ELSE PLogin

\* the history.replaceState / setPath targets of one pass, in program order
HomeRedirect(p, mode, tok, rec) ==
    IF p = Root /\ mode # Null THEN <<HomeTarget(mode, tok, rec)>> ELSE <<>>

\* mutant: personal mode redirects the root path only
PersonalRedirect_RootOnly(p, mode) ==
    IF mode = "personal" /\ p = Root THEN <<PAdmin>> ELSE <<>>

PersonalRedirect(p, mode) ==
    IF mode = "personal" /\ ~StartsWith(p, PAdmin) THEN <<PAdmin>> ELSE <<>>

UserRedirect(p, tok, rec) ==
    IF /\ ~StartsWith(p, PAdmin)
       /\ StartsWith(p, PUser)
       /\ ~Authed(tok, rec)
       /\ p # PLogin
    THEN <<PLogin>> ELSE <<>>

Redirects(p, mode, tok, rec) ==
    HomeRedirect(p, mode, tok, rec) \o PersonalRedirect(p, mode)
        \o UserRedirect(p, tok, rec)

\* mutant: the user console is guarded by the token alone
RenderView_TokenOnly(p, adm, tok, rec) ==
    IF StartsWith(p, PAdmin)
    THEN IF adm = Null THEN "adminLogin" ELSE "admin"
    ELSE IF StartsWith(p, PUser)
         THEN IF tok = Null THEN "public" ELSE "user"
         ELSE "public"

\* the element the pass returns
RenderView(p, adm, tok, rec) ==
    IF StartsWith(p, PAdmin)
    THEN IF adm = Null THEN "adminLogin" ELSE "admin"
    ELSE IF StartsWith(p, PUser)
         THEN IF ~Authed(tok, rec) THEN "public" ELSE "user"
         ELSE "public"

\* mutant: the effect has no dependency array and runs on every pass
UserRecordEffect_EveryPass ==
    /\ depTok' = userToken
    /\ IF userToken = Null
       THEN /\ userRecord' = Null
            /\ UNCHANGED <<inflight, nFetch>>
       ELSE /\ inflight' = [inflight EXCEPT ![userToken] = @ + 1]
            /\ nFetch' = nFetch + 1
            /\ UNCHANGED userRecord

\* useEffect(() => { ... }, [userToken, updateUserToken])
UserRecordEffect ==
    /\ depTok' = userToken
    /\ IF depTok = userToken
       THEN UNCHANGED <<userRecord, inflight, nFetch>>
       ELSE IF userToken = Null
            THEN /\ userRecord' = Null
                 /\ UNCHANGED <<inflight, nFetch>>
            ELSE /\ inflight' = [inflight EXCEPT ![userToken] = @ + 1]
                 /\ nFetch' = nFetch + 1
                 /\ UNCHANGED userRecord

\* useEffect(() => { ... }, []): issued once, on mount
SiteModeEffect ==
    siteFetch' = IF depTok = "unmounted" THEN "pending" ELSE siteFetch

Render ==
    /\ dirty
    /\ LET rs == Redirects(path, siteMode, userToken, userRecord) IN
          /\ path' = IF rs = <<>> THEN path ELSE rs[Len(rs)]
          /\ hist' = IF rs = <<>> THEN hist
                     ELSE [hist EXCEPT ![hidx] = rs[Len(rs)]]
    /\ view' = RenderView(path, adminToken, userToken, userRecord)
    /\ SiteModeEffect
    /\ UserRecordEffect
    /\ UNCHANGED <<adminToken, userToken, siteMode, notice, storage, hidx,
                   adminLogins, nSets, sess, lastNav>>
    /\ Scheduled
    /\ passes' = IF dirty' THEN passes + 1 ELSE 0

\* ------------------------------------------------------------- events
SiteInfoOk(m) ==
    /\ Dispatched /\ siteFetch = "pending"
    /\ siteMode' = m
    /\ siteFetch' = "done"
    /\ UNCHANGED <<adminToken, userToken, userRecord, notice, path, storage,
                   hist, hidx, inflight, adminLogins, depTok, view, nSets,
                   nFetch, sess, lastNav>>
    /\ Scheduled

SiteInfoFail ==
    /\ Dispatched /\ siteFetch = "pending"
    /\ siteMode' = "personal"
    /\ siteFetch' = "done"
    /\ UNCHANGED <<adminToken, userToken, userRecord, notice, path, storage,
                   hist, hidx, inflight, adminLogins, depTok, view, nSets,
                   nFetch, sess, lastNav>>
    /\ Scheduled

\* mutant: the success handler does not navigate
ProfileOk_NoNavigate(t) ==
    /\ Dispatched /\ inflight[t] > 0
    /\ inflight' = [inflight EXCEPT ![t] = @ - 1]
    /\ userRecord' = User(t)
    /\ UNCHANGED <<hist, hidx, path, lastNav>>
    /\ sess' = IF sess = "login" /\ t = userToken THEN "fetched" ELSE sess
    /\ UNCHANGED <<adminToken, userToken, siteMode, notice, storage,
                   siteFetch, adminLogins, depTok, view, nSets, nFetch>>
    /\ Scheduled

\* .then((result) => { setUserRecord(result.user); ... })
ProfileOk(t) ==
    /\ Dispatched /\ inflight[t] > 0
    /\ inflight' = [inflight EXCEPT ![t] = @ - 1]
    /\ userRecord' = User(t)
    /\ IF normalizePath(Location) \in {PLogin, PRegister}
       THEN navigateTo(PUser)
       ELSE UNCHANGED <<hist, hidx, path, lastNav>>
    /\ sess' = IF sess = "login" /\ t = userToken THEN "fetched" ELSE sess
    /\ UNCHANGED <<adminToken, userToken, siteMode, notice, storage,
                   siteFetch, adminLogins, depTok, view, nSets, nFetch>>
    /\ Scheduled

\* the callback handed to createApiFetch
onUnauthorized == updateUserToken(Null)

\* createApiFetch: a 401 runs the callback before the request rejects
apiRejects(status) == status = 401 => onUnauthorized

\* .catch(() => { updateUserToken(null) })
ProfileFail(t, status) ==
    /\ Dispatched /\ inflight[t] > 0
    /\ inflight' = [inflight EXCEPT ![t] = @ - 1]
    /\ apiRejects(status)
    /\ updateUserToken(Null)
    /\ sess' = "none"
    /\ UNCHANGED <<adminToken, siteMode, notice, path, hist, hidx, siteFetch,
                   adminLogins, depTok, view, nFetch, lastNav>>
    /\ Scheduled

handlePopState(i) ==
    /\ Dispatched /\ i \in 1..Len(hist) /\ i # hidx
    /\ hidx' = i
    /\ path' = normalizePath(hist[i])
    /\ lastNav' = normalizePath(hist[i])
    /\ sess' = "none"
    /\ UNCHANGED <<adminToken, userToken, userRecord, siteMode, notice,
                   storage, hist, inflight, siteFetch, adminLogins, depTok,
                   view, nSets, nFetch>>
    /\ Scheduled

\* onNavigate of PublicApp and UserApp
Navigate(target) ==
    /\ Dispatched /\ view \in {"public", "user"}
    /\ navigateTo(target)
    /\ sess' = "none"
    /\ UNCHANGED <<adminToken, userToken, userRecord, siteMode, notice,
                   storage, inflight, siteFetch, adminLogins, depTok, view,
                   nSets, nFetch>>
    /\ Scheduled

\* onUserLogin of PublicApp
handleUserLogin(token) ==
    /\ Dispatched /\ view = "public" /\ nSets < MaxSets
    /\ updateUserToken(token)
    /\ navigateTo(PUser)
    /\ sess' = "login"
    /\ UNCHANGED <<adminToken, siteMode, notice, inflight, siteFetch,
                   adminLogins, depTok, view, nFetch>>
    /\ Scheduled

handleUserLogout ==
    /\ Dispatched /\ view = "user"
    /\ updateUserToken(Null)
    /\ navigateTo(PLogin)
    /\ sess' = "none"
    /\ UNCHANGED <<adminToken, siteMode, notice, inflight, siteFetch,
                   adminLogins, depTok, view, nFetch>>
    /\ Scheduled

\* updateToken of UserApp
UserAppUpdateToken(next) ==
    /\ Dispatched /\ view = "user"
    /\ next # Null => nSets < MaxSets
    /\ updateUserToken(next)
    /\ sess' = "none"
    /\ UNCHANGED <<adminToken, siteMode, notice, path, hist, hidx, inflight,
                   siteFetch, adminLogins, depTok, view, nFetch, lastNav>>
    /\ Scheduled

\* onSubmit of LoginView: the request is sent
handleAdminLogin ==
    /\ Dispatched /\ view = "adminLogin" /\ adminLogins < MaxAdminLogins
    /\ adminLogins' = adminLogins + 1
    /\ UNCHANGED <<adminToken, userToken, userRecord, siteMode, notice, path,
                   storage, hist, hidx, inflight, siteFetch, depTok, view,
                   nSets, nFetch, sess, lastNav>>
    /\ Scheduled

\* ... the request resolved: updateAdminToken(result.token); setNotice("")
AdminLoginOk(token) ==
    /\ Dispatched /\ adminLogins > 0
    /\ adminLogins' = adminLogins - 1
    /\ updateAdminToken(token)
    /\ notice' = ""
    /\ UNCHANGED <<userToken, userRecord, siteMode, path, hist, hidx,
                   inflight, siteFetch, depTok, view, nSets, nFetch, sess,
                   lastNav>>
    /\ Scheduled

\* ... the request rejected: setNotice(error.message)
AdminLoginFail ==
    /\ Dispatched /\ adminLogins > 0
    /\ adminLogins' = adminLogins - 1
    /\ notice' = "error"
    /\ UNCHANGED <<adminToken, userToken, userRecord, siteMode, path, storage,
                   hist, hidx, inflight, siteFetch, depTok, view, nSets,
                   nFetch, sess, lastNav>>
    /\ Scheduled

\* updateToken of AdminApp
AdminAppUpdateToken(next) ==
    /\ Dispatched /\ view = "admin"
    /\ updateAdminToken(next)
    /\ UNCHANGED <<userToken, userRecord, siteMode, notice, path, hist, hidx,
                   inflight, siteFetch, adminLogins, depTok, view, nSets,
                   nFetch, sess, lastNav>>
    /\ Scheduled

\* =============================================================
\* MonitoringView
\* =============================================================
NoData == [d |-> 0, req |-> 0]

\* what the parent loaded before the view was shown
InitialData == [d |-> 7, req |-> 0]

TimeWindows == {1, 7, 30}

\* the body of the response to request r
MonData(r) == [d |-> r.d, req |-> r.id]

MonInit ==
    /\ monitoring \in {NoData, InitialData}
    /\ days = 7
    /\ loading = FALSE
    /\ shownLoading = FALSE
    /\ shownPanel = FALSE
    /\ reqs = {}
    /\ inst = 1
    /\ nextId = 1
    /\ applied = <<>>
    /\ monDirty = TRUE

\* the view is not on screen
MonParked ==
    /\ monitoring = NoData
    /\ days = 7
    /\ loading = FALSE
    /\ shownLoading = FALSE
    /\ shownPanel = FALSE
    /\ reqs = {}
    /\ inst = 1
    /\ nextId = 1
    /\ applied = <<>>
    /\ monDirty = FALSE

MonState == <<monitoring, days, loading>>

MonScheduled ==
    /\ monDirty' = (MonState' # MonState)
    /\ UNCHANGED <<appVars, catVars, fnVars>>

MonRender ==
    /\ monDirty
    /\ shownPanel' = (monitoring # NoData)
    /\ shownLoading' = loading
    /\ monDirty' = FALSE
    /\ UNCHANGED <<monitoring, days, loading, reqs, inst, nextId, applied>>
    /\ UNCHANGED <<appVars, catVars, fnVars>>

\* mutant: a new request aborts the ones in flight
fetchData_AbortPrevious(d) ==
    /\ loading' = TRUE
    /\ reqs' = {[id |-> nextId, d |-> d, inst |-> inst]}
    /\ nextId' = nextId + 1

\* setLoading(true) and the request, up to the first await
fetchData(d) ==
    /\ loading' = TRUE
    /\ reqs' = reqs \cup {[id |-> nextId, d |-> d, inst |-> inst]}
    /\ nextId' = nextId + 1

handleDaysChange(d) ==
    /\ days' = d
    /\ fetchData(d)

\* onClick of a selector button, which is disabled while loading
ClickDays(d) ==
    /\ ~monDirty /\ shownPanel /\ ~shownLoading
    /\ nextId <= MaxReqs
    /\ handleDaysChange(d)
    /\ UNCHANGED <<monitoring, shownLoading, shownPanel, inst, applied>>
    /\ MonScheduled

\* finally { setLoading(false) }: the setter of the instance that asked
Finally(r) == loading' = IF r.inst = inst THEN FALSE ELSE loading

\* the response is 2xx and parses: onLoaded(data)
FetchOk(r) ==
    /\ ~monDirty /\ r \in reqs
    /\ reqs' = reqs \ {r}
    /\ monitoring' = MonData(r)
    /\ applied' = Append(applied, MonData(r))
    /\ Finally(r)
    /\ UNCHANGED <<days, shownLoading, shownPanel, inst, nextId>>
    /\ MonScheduled

\* mutant: no finally block, setLoading(false) on the success path only
FetchFail_NoFinally(r, why) ==
    /\ ~monDirty /\ r \in reqs
    /\ reqs' = reqs \ {r}
    /\ loading' = loading
    /\ UNCHANGED <<monitoring, days, shownLoading, shownPanel, inst, nextId,
                   applied>>
    /\ MonScheduled

\* fetch throws, the status is not ok, or the body does not parse
FetchFail(r, why) ==
    /\ ~monDirty /\ r \in reqs
    /\ reqs' = reqs \ {r}
    /\ Finally(r)
    /\ UNCHANGED <<monitoring, days, shownLoading, shownPanel, inst, nextId,
                   applied>>
    /\ MonScheduled

\* the parent unmounts the view and mounts it again: fresh useState values,
\* while the requests of the old instance stay in flight
Remount ==
    /\ ~monDirty /\ inst < MaxMounts
    /\ inst' = inst + 1
    /\ days' = 7
    /\ loading' = FALSE
    /\ shownLoading' = FALSE
    /\ shownPanel' = FALSE
    /\ monDirty' = TRUE
    /\ UNCHANGED <<monitoring, reqs, nextId, applied>>
    /\ UNCHANGED <<appVars, catVars, fnVars>>

MonNext ==
    \/ MonRender
    \/ \E d \in TimeWindows : ClickDays(d)
    \/ \E r \in reqs : FetchOk(r)
    \/ \E r \in reqs, why \in {"throws", "status", "json"} : FetchFail(r, why)
    \/ Remount

\* =============================================================
\* ModelsView
\* =============================================================
pageSizeOptions == {12, 24, 48}

\* the model lists the parent passes: prefixes of the catalog
ModelCounts == {0, 13, MaxModels}

\* identifier of the i-th catalog item
ModelId(i) ==
    << IF i % 2 = 0 THEN "G" ELSE "g",
       IF i % 3 = 0 THEN "p" ELSE "q",
       IF i % 5 = 0 THEN "t" ELSE "u" >>

\* what the user types in the search box
Searches == { <<>>, <<"g">>, <<"P">>, <<"p", "T">>, <<"x">> }

\* String.prototype.toLowerCase, per character and per string
LowerChar(c) ==
    CASE c = "G" -> "g"
      [] c = "P" -> "p"
      [] c = "T" -> "t"
      [] OTHER -> c

toLowerCase(str) == [k \in 1..Len(str) |-> LowerChar(str[k])]

\* String.prototype.includes
includes(hay, needle) ==
    \E k \in 0..(Len(hay) - Len(needle)) :
        SubSeq(hay, k + 1, k + Len(needle)) = needle

\* filtered.length
Total(n, q) ==
    IF q = <<>> THEN n
    ELSE Cardinality({i \in 1..n :
             includes(toLowerCase(ModelId(i)), toLowerCase(q))})

\* Math.max(1, Math.ceil(total / pageSize))
TotalPages(total, size) ==
    LET ceil == (total + size - 1) \div size
    IN  IF ceil > 1 THEN ceil ELSE 1

\* buildPageItems: first, last and current +/- 1 (ellipses left out)
buildPageItems(p, tp) == {1, tp, p - 1, p, p + 1} \cap (1..tp)

CatInit ==
    /\ models \in ModelCounts
    /\ search = <<>>
    /\ pageSize = 12
    /\ page = 1
    /\ depReset = <<"unmounted">>
    /\ depClamp = 0
    /\ shownPage = 0
    /\ shownPages = 0
    /\ shownTotal = 0
    /\ catDirty = TRUE
    /\ wasEmpty = FALSE

\* the view is not on screen
CatParked ==
    /\ models = 0
    /\ search = <<>>
    /\ pageSize = 12
    /\ page = 1
    /\ depReset = <<"unmounted">>
    /\ depClamp = 0
    /\ shownPage = 0
    /\ shownPages = 0
    /\ shownTotal = 0
    /\ catDirty = FALSE
    /\ wasEmpty = FALSE

CatState == <<models, search, pageSize, page>>

CatScheduled ==
    /\ catDirty' = (CatState' # CatState)
    /\ UNCHANGED wasEmpty
    /\ UNCHANGED <<appVars, monVars, fnVars>>

\* useEffect(() => { setPage(1) }, [search, pageSize])
ResetEffect(p) == IF depReset # <<search, pageSize>> THEN 1 ELSE p

\* mutant: the clamp effect is missing
ClampEffect_Missing(p, tp) == p

\* useEffect(() => { setPage((prev) => Math.min(prev, totalPages)) },
\*           [totalPages])
ClampEffect(p, tp) == IF depClamp # tp /\ tp < p THEN tp ELSE p

\* one render pass and its two effects, in hook order
CatRender ==
    /\ catDirty
    /\ LET total == Total(models, search)
           tp == TotalPages(total, pageSize)
       IN  /\ shownTotal' = total
           /\ shownPages' = tp
           /\ shownPage' = page
           /\ page' = ClampEffect(ResetEffect(page), tp)
           /\ depReset' = <<search, pageSize>>
           /\ depClamp' = tp
           /\ wasEmpty' = (wasEmpty \/ total = 0)
    /\ catDirty' = (page' # page)
    /\ UNCHANGED <<models, search, pageSize>>
    /\ UNCHANGED <<appVars, monVars, fnVars>>

\* onInput of the search box
setSearch(q) ==
    /\ ~catDirty /\ shownPages > 0
    /\ search' = q
    /\ UNCHANGED <<models, pageSize, page, depReset, depClamp, shownPage,
                   shownPages, shownTotal>>
    /\ CatScheduled

\* onChange of the page-size select (rendered when filtered is not empty)
setPageSize(size) ==
    /\ ~catDirty /\ shownTotal > 0
    /\ pageSize' = size
    /\ UNCHANGED <<models, search, page, depReset, depClamp, shownPage,
                   shownPages, shownTotal>>
    /\ CatScheduled

\* onClick of "<": setPage(Math.max(1, page - 1))
ClickPrevious ==
    /\ ~catDirty /\ shownTotal > 0 /\ ~(shownPage <= 1)
    /\ page' = IF shownPage - 1 > 1 THEN shownPage - 1 ELSE 1
    /\ UNCHANGED <<models, search, pageSize, depReset, depClamp, shownPage,
                   shownPages, shownTotal>>
    /\ CatScheduled

\* onClick of ">": setPage(Math.min(totalPages, page + 1))
ClickNext ==
    /\ ~catDirty /\ shownTotal > 0 /\ ~(shownPage >= shownPages)
    /\ page' = IF shownPage + 1 < shownPages THEN shownPage + 1
               ELSE shownPages
    /\ UNCHANGED <<models, search, pageSize, depReset, depClamp, shownPage,
                   shownPages, shownTotal>>
    /\ CatScheduled

\* onClick of a page number: setPage(item)
ClickPage(item) ==
    /\ ~catDirty /\ shownTotal > 0
    /\ item \in buildPageItems(shownPage, shownPages)
    /\ page' = item
    /\ UNCHANGED <<models, search, pageSize, depReset, depClamp, shownPage,
                   shownPages, shownTotal>>
    /\ CatScheduled

\* the parent passes another model list
ModelsChanged(n) ==
    /\ ~catDirty /\ shownPages > 0
    /\ models' = n
    /\ UNCHANGED <<search, pageSize, page, depReset, depClamp, shownPage,
                   shownPages, shownTotal>>
    /\ CatScheduled

CatNext ==
    \/ CatRender
    \/ \E q \in Searches : setSearch(q)
    \/ \E size \in pageSizeOptions : setPageSize(size)
    \/ ClickPrevious
    \/ ClickNext
    \/ \E item \in 1..MaxModels : ClickPage(item)
    \/ \E n \in ModelCounts : ModelsChanged(n)

\* =============================================================
\* normalizePath, applied to a string and to its own result
\* =============================================================
\* the characters of the strings: the slash, a one-character word and a
\* longer word
Alphabet == {"/", "x", "admin"}

RECURSIVE Strings(_)
Strings(n) ==
    IF n = 0 THEN {<<>>}
    ELSE Strings(n - 1) \cup
         {Append(w, c) : w \in {v \in Strings(n - 1) : Len(v) = n - 1},
                         c \in Alphabet}

NormInit ==
    /\ nPath \in Strings(MaxLen)
    /\ nOut = <<>>

NormParked ==
    /\ nPath = <<>>
    /\ nOut = <<>>

\* normalizePath(path)
CallNormalize ==
    /\ nOut = <<>>
    /\ nOut' = <<normalizePath(nPath)>>
    /\ UNCHANGED <<nPath, rate, rateClass>>
    /\ UNCHANGED <<appVars, monVars, catVars>>

\* normalizePath(normalizePath(path))
CallAgain ==
    /\ Len(nOut) = 1
    /\ nOut' = Append(nOut, normalizePath(nOut[1]))
    /\ UNCHANGED <<nPath, rate, rateClass>>
    /\ UNCHANGED <<appVars, monVars, catVars>>

NextNorm == CallNormalize \/ CallAgain

\* =============================================================
\* rateColor, rateBg
\* =============================================================
\* rates are counted in tenths of a percent: Percent(99) is 99, and 94.9
\* is the rate 949
Percent(n) == n * 10

\* rate: number | null; <<>> is null, <<r>> the number r
NoRate == <<>>
Rates == {NoRate} \cup {<<r>> : r \in 0..MaxRate}

\* mutant: the first threshold is strict
rateColor_Above99(r) ==
    IF r = NoRate THEN "text-stone-400"
    ELSE IF r[1] > Percent(99) THEN "text-green-600"
    ELSE IF r[1] >= Percent(95) THEN "text-yellow-600"
    ELSE "text-red-600"

rateColor(r) ==
    IF r = NoRate THEN "text-stone-400"
    ELSE IF r[1] >= Percent(99) THEN "text-green-600"
    ELSE IF r[1] >= Percent(95) THEN "text-yellow-600"
    ELSE "text-red-600"

rateBg(r) ==
    IF r = NoRate THEN "bg-stone-100"
    ELSE IF r[1] >= Percent(99) THEN "bg-green-50"
    ELSE IF r[1] >= Percent(95) THEN "bg-yellow-50"
    ELSE "bg-red-50"

RateInit ==
    /\ rate \in Rates
    /\ rateClass = <<>>

RateParked ==
    /\ rate = NoRate
    /\ rateClass = <<>>

\* a row or card is rendered: class={... rateColor(rate) ... rateBg(rate)}
RenderRate ==
    /\ rateClass = <<>>
    /\ rateClass' = <<rateColor(rate), rateBg(rate)>>
    /\ UNCHANGED <<nPath, nOut, rate>>
    /\ UNCHANGED <<appVars, monVars, catVars>>

NextRate == RenderRate

\* =============================================================
\* specifications
\* =============================================================
\* the root App is not on screen
AppParked ==
    /\ storage = [admin_token |-> Null, user_token |-> Null]
    /\ adminToken = Null
    /\ userToken = Null
    /\ userRecord = Null
    /\ siteMode = Null
    /\ notice = ""
    /\ hist = <<Root>>
    /\ path = Root
    /\ lastNav = Root
    /\ hidx = 1
    /\ inflight = [t \in Tokens |-> 0]
    /\ siteFetch = "idle"
    /\ adminLogins = 0
    /\ depTok = "unmounted"
    /\ view = "none"
    /\ dirty = FALSE
    /\ nSets = 0
    /\ nFetch = 0
    /\ sess = "none"
    /\ passes = 0

Init == AppInit /\ MonParked /\ CatParked /\ NormParked /\ RateParked

Next ==
    \/ Render
    \/ \E m \in {"personal", "multi"} : SiteInfoOk(m)
    \/ SiteInfoFail
    \/ \E t \in Tokens : ProfileOk(t)
    \/ \E t \in Tokens, status \in {401, 500} : ProfileFail(t, status)
    \/ \E i \in 1..MaxHist : handlePopState(i)
    \/ \E target \in NavTargets : Navigate(target)
    \/ \E token \in Tokens : handleUserLogin(token)
    \/ handleUserLogout
    \/ \E next \in Tokens \cup {Null} : UserAppUpdateToken(next)
    \/ handleAdminLogin
    \/ \E token \in AdminTokens : AdminLoginOk(token)
    \/ AdminLoginFail
    \/ \E next \in AdminTokens \cup {Null} : AdminAppUpdateToken(next)

Spec == Init /\ [][Next]_vars

InitMon == AppParked /\ MonInit /\ CatParked /\ NormParked /\ RateParked

SpecMon == InitMon /\ [][MonNext]_vars

InitCat == AppParked /\ MonParked /\ CatInit /\ NormParked /\ RateParked

SpecCat == InitCat /\ [][CatNext]_vars

InitNorm == AppParked /\ MonParked /\ CatParked /\ NormInit /\ RateParked

SpecNorm == InitNorm /\ [][NextNorm]_vars

InitRate == AppParked /\ MonParked /\ CatParked /\ NormParked /\ RateInit

SpecRate == InitRate /\ [][NextRate]_vars

\* ------------------------------------------------------------- claims
NoneInFlight == \A t \in Tokens : inflight[t] = 0

\* C1: in every reachable state a present user record implies a present
\* user token (the record stays absent once the token is cleared).
C1_RecordImpliesToken == userRecord # Null => userToken # Null

\* C2 (as stated): in personal mode the settled path equals /admin.
C2_PersonalSettlesAtAdmin ==
    (siteMode = "personal" /\ ~dirty) => path = PAdmin

\* C2 (amended): in personal mode the redirect chain ends within two
\* redirecting passes and the settled path is /admin, unless the path last
\* navigated to starts with /admin, which is then kept.
C2_PersonalSettlesUnderAdmin ==
    /\ passes <= 2
    /\ (siteMode = "personal" /\ ~dirty) =>
           path = IF StartsWith(lastNav, PAdmin) THEN lastNav ELSE PAdmin

\* C2 witness: personal mode, back (popstate) to /login, settled at /admin.
C2_Witness ==
    /\ siteMode = "personal" /\ ~dirty
    /\ lastNav = PLogin /\ path = PAdmin
    /\ hidx < Len(hist)

\* the target the claim gives for the root path
C3_Target ==
    IF siteMode = "personal" THEN PAdmin
    ELSE IF userToken # Null /\ userRecord # Null THEN PUser
    ELSE PLogin

\* C3: a render pass at path / with the site mode known sets the path to a
\* target that depends on (siteMode, userToken, userRecord) only, and
\* replaces the current history entry: the history keeps its length, its
\* index and its other entries.
C3_HomeRedirect ==
    [][(dirty /\ path = Root /\ siteMode # Null) =>
           /\ path' = C3_Target
           /\ Len(hist') = Len(hist) /\ hidx' = hidx
           /\ hist' = [hist EXCEPT ![hidx] = C3_Target]]_vars

\* C3 witness: an authenticated user opened /, the pass just redirected to
\* /user.
C3_Witness ==
    /\ siteMode = "multi" /\ lastNav = Root /\ path = PUser
    /\ hist = <<PUser>> /\ userToken # Null /\ userRecord # Null

\* C4: while the site mode is unknown nothing has been rendered and no
\* redirect has been made.
C4_BlankWhileUnknown == siteMode = Null => (view = "none" /\ path = lastNav)

\* C5: a render pass at a path starting with /user returns the user console
\* iff user token and user record are both present, and otherwise replaces
\* the path by /login and returns the public view; an up-to-date view is
\* never the user console while the token or the record is absent.
C5_UserConsoleGuard ==
    [][/\ (dirty /\ StartsWith(path, PUser)) =>
              /\ (view' = "user") <=> (userToken # Null /\ userRecord # Null)
              /\ ~(userToken # Null /\ userRecord # Null) =>
                     /\ view' = "public"
                     /\ path' = PLogin
                     /\ hist'[hidx'] = PLogin
       /\ (view' = "user" /\ ~dirty') =>
              (userToken' # Null /\ userRecord' # Null)]_vars

\* C5 witness: the user console is on screen at /user.
C5_Witness == view = "user" /\ path = PUser /\ ~dirty

\* C6: a failed profile request (401 or other) leaves user token, storage
\* key and user record absent; a profile request is issued only for a
\* non-null token, and never more requests than non-null tokens were set.
C6_FailureClearsNoLoop ==
    [][/\ (\E t \in Tokens, status \in {401, 500} : ProfileFail(t, status)) =>
              /\ userToken' = Null
              /\ storage'.user_token = Null
              /\ userRecord' = Null
       /\ nFetch' > nFetch => userToken # Null
       /\ nFetch' <= nSets']_vars

\* C6 witness: the stored token's only request failed at /login; the
\* session is cleared, re-rendered, and nothing is in flight.
C6_Witness ==
    /\ userToken = Null /\ storage.user_token = Null /\ userRecord = Null
    /\ nFetch = 1 /\ NoneInFlight /\ depTok = Null /\ ~dirty
    /\ hist = <<PLogin>>

C8_NoCancelLastResolvedWins ==
    [][/\ nextId' > nextId =>
              /\ reqs \subseteq reqs'
              /\ reqs' \ reqs = {[id |-> nextId, d |-> days', inst |-> inst]}
       /\ \A r \in reqs : FetchOk(r) => monitoring' = [d |-> r.d, req |-> r.id]
      ]_vars

\* C8 witness: nothing is in flight, and the data handed to onLoaded last is
\* the response to an earlier request for a window other than the selected
\* one, applied after the response to the later request for the selected one.
C8_Witness ==
    /\ reqs = {} /\ Len(applied) >= 2
    /\ monitoring = applied[Len(applied)]
    /\ monitoring.d # days
    /\ \E i \in 1..(Len(applied) - 1) :
          applied[i].req > monitoring.req /\ applied[i].d = days

\* C9: a request that ends without onLoaded being called leaves the
\* displayed data and the selected window as they were, and the end of any
\* request of the mounted instance, successful or not, leaves loading false.
C9_FailureSwallowed ==
    [][\A r \in reqs :
          /\ (\E why \in {"throws", "status", "json"} : FetchFail(r, why)) =>
                 /\ applied' = applied
                 /\ monitoring' = monitoring
                 /\ days' = days
          /\ (r \notin reqs' /\ r.inst = inst) => ~loading'
      ]_vars

\* C9 witness: the only request, for another window than the one on
\* screen, failed: the first data is still displayed, loading is false.
C9_Witness ==
    /\ reqs = {} /\ nextId = 2 /\ applied = <<>>
    /\ monitoring = InitialData /\ days # 7
    /\ ~loading /\ ~monDirty /\ shownPanel

\* totalPages as the claim defines it: the least k >= 1 with
\* k * pageSize >= filteredCount
C10_TotalPages ==
    LET total == Total(models, search) IN
    CHOOSE k \in 1..(MaxModels + 1) :
        /\ k * pageSize >= total
        /\ k = 1 \/ (k - 1) * pageSize < total

\* C10: once the effects have run and no re-render is scheduled,
\* 1 <= page <= totalPages.
C10_PageInRange ==
    ~catDirty => (1 <= page /\ page <= C10_TotalPages)

\* C10 witness: after an empty result, a filtered list of several pages,
\* on its last page.
C10_Witness ==
    /\ ~catDirty /\ wasEmpty
    /\ search # <<>> /\ page > 1 /\ page = C10_TotalPages

\* the tokens a restart would initialise from storage (useState initialisers)
C11_Restarted == <<storage.admin_token, storage.user_token>>

\* C11: in every reachable state, so after every token update, each storage
\* key holds the in-memory token of its slot and is absent when that token
\* is null: a restart reads back the tokens the app holds.
C11_StorageMirrorsTokens ==
    /\ storage.admin_token = adminToken
    /\ storage.user_token = userToken
    /\ C11_Restarted = <<adminToken, userToken>>

\* C11 witness: an admin token is held and stored, and the one user token
\* that was set (at start or by a login) was removed by the failure of its
\* profile request.
C11_Witness ==
    /\ adminToken # Null /\ storage.admin_token = adminToken
    /\ notice = "" /\ view = "admin"
    /\ userToken = Null /\ storage.user_token = Null
    /\ nSets = 1 /\ nFetch = 1 /\ NoneInFlight /\ ~dirty

\* C12: normalizePath applied to its own result returns that result; the
\* empty string, "/" and every all-slash string give "/"; "/admin/" gives
\* "/admin"; no result other than "/" ends in a slash.
C12_NormalizeIdempotent ==
    /\ Len(nOut) = 2 => nOut[2] = nOut[1]
    /\ Len(nOut) >= 1 =>
           /\ (\A i \in 1..Len(nPath) : nPath[i] = Slash) => nOut[1] = Root
           /\ nPath = <<"/", "admin", "/">> => nOut[1] = <<"/", "admin">>
           /\ nOut[1] # <<>>
           /\ nOut[1] = Root \/ nOut[1][Len(nOut[1])] # Slash

\* the part of C12 that the code keeps: idempotence for the empty string and
\* for strings that start with a slash, and the listed values for all strings
C12_IdempotentOnAbsolute ==
    /\ (Len(nOut) = 2 /\ (nPath = <<>> \/ Head(nPath) = Slash)) =>
           nOut[2] = nOut[1]
    /\ Len(nOut) >= 1 =>
           /\ (\A i \in 1..Len(nPath) : nPath[i] = Slash) => nOut[1] = Root
           /\ nPath = <<"/", "admin", "/">> => nOut[1] = <<"/", "admin">>
           /\ nOut[1] # <<>>
           /\ nOut[1] = Root \/ nOut[1][Len(nOut[1])] # Slash

\* the band a class stands for
C13_Band(class) ==
    CASE class \in {"text-stone-400", "bg-stone-100"} -> "neutral"
      [] class \in {"text-green-600", "bg-green-50"} -> "good"
      [] class \in {"text-yellow-600", "bg-yellow-50"} -> "warning"
      [] class \in {"text-red-600", "bg-red-50"} -> "critical"
      [] OTHER -> "none"

\* the band the claim gives a rate (in tenths of a percent)
C13_Expected ==
    IF rate = <<>> THEN "neutral"
    ELSE IF rate[1] >= 990 THEN "good"
    ELSE IF rate[1] >= 950 /\ rate[1] < 990 THEN "warning"
    ELSE "critical"

\* C13: every rate is classified: null is neutral, a rate >= 99 good, a
\* rate >= 95 and < 99 warning, every other rate critical (99 good, 95
\* warning, 94.9 critical), and rateBg gives the band rateColor gives.
C13_RateBands ==
    rateClass # <<>> =>
        /\ C13_Band(rateClass[1]) = C13_Expected
        /\ C13_Band(rateClass[2]) = C13_Band(rateClass[1])
        /\ rate = <<990>> => C13_Band(rateClass[1]) = "good"
        /\ rate = <<950>> => C13_Band(rateClass[1]) = "warning"
        /\ rate = <<949>> => C13_Band(rateClass[1]) = "critical"

\* C13 witness: the rate 94.9 was rendered with the critical classes.
C13_Witness ==
    /\ rate = <<949>>
    /\ rateClass = <<"text-red-600", "bg-red-50">>

\* C14: the completion of a profile request issued for a token that is not
\* the current user token leaves token, storage key, record, path and
\* history as they were.
C14_StaleCompletionIgnored ==
    [][\A t \in Tokens :
          (/\ t # userToken
           /\ \/ ProfileOk(t)
              \/ \E status \in {401, 500} : ProfileFail(t, status)) =>
              UNCHANGED <<userToken, storage, userRecord, path, hist, hidx>>
      ]_vars

\* the consequence C14 draws: the user console on screen holds the record
\* the server returns for the token it holds.
C14_ConsoleRecordOfToken ==
    (view = "user" /\ ~dirty) => userRecord = User(userToken)

====
